---------------------------- MODULE Spec2Model ----------------------------
(***************************************************************************)
(* A model of src/app.py, the "NFS a Pagar" ledger: the spreadsheet        *)
(* ingestion pipeline (detect_and_load_excel), the field normalizers, the  *)
(* dedup key (make_key), the merge engine (merge_import), the export       *)
(* serializer (to_excel_bytes) and the three session handlers (import,     *)
(* save edits, clear).                                                     *)
(*                                                                         *)
(* Representation.                                                         *)
(*   - A text is a sequence of one-character strings, so that strip,       *)
(*     replace, upper and substring search are computed character by       *)
(*     character as Python computes them.                                  *)
(*   - A number is a natural number of thousandths (1234560 is 1234.56).   *)
(*   - A timestamp is [day, tod]: day d is the calendar day 2024-01-0d     *)
(*     (1..9), tod is 0 at midnight and positive for a time of day.  NaT   *)
(*     is the timestamp of day 0.                                          *)
(*   - A cell is what pandas hands the code for one worksheet cell: NaN,   *)
(*     a str, an int, a float or a datetime.                               *)
(***************************************************************************)
EXTENDS Integers, Sequences, FiniteSets, TLC

VARIABLES
    data,      \* st.session_state["data"]: the dataset, a sequence of records
    msg,       \* what the last handler reported: [kind, added, skipped]
    pc,        \* position of the function call under study (pure-function specs)
    arg,       \* its argument(s)
    ret        \* its result

vars == <<data, msg, pc, arg, ret>>

---------------------------------------------------------------------------
(* Bounds of the model *)

MaxData == 2        \* longest dataset the session handlers build
MaxUpload == 1      \* most rows below the header row of a workbook the session imports
MaxBody == 2        \* most rows below the header row of a generated sheet
MaxBatch == 2       \* most records in an existing or incoming set (merge)

(* Program constants *)

ScanLimit == 10     \* range(min(10, len(raw)))

---------------------------------------------------------------------------
(* Texts *)

LowerChars == <<"a","b","c","d","e","f","g","h","i","j","k","l","m",
                "n","o","p","q","r","s","t","u","v","w","x","y","z">>
UpperChars == <<"A","B","C","D","E","F","G","H","I","J","K","L","M",
                "N","O","P","Q","R","S","T","U","V","W","X","Y","Z">>
Digits == <<"0","1","2","3","4","5","6","7","8","9">>

DigitSet == {Digits[i] : i \in 1..10}
LowerSet == {LowerChars[i] : i \in 1..26}
UpperSet == {UpperChars[i] : i \in 1..26}

IsDigit(ch) == ch \in DigitSet
DigitVal(ch) == (CHOOSE i \in 1..10 : Digits[i] = ch) - 1

\* str.upper() and str.lower(), one character
UpperCh(ch) ==
    IF ch \in LowerSet
    THEN UpperChars[CHOOSE i \in 1..26 : LowerChars[i] = ch]
    ELSE ch
LowerCh(ch) ==
    IF ch \in UpperSet
    THEN LowerChars[CHOOSE i \in 1..26 : UpperChars[i] = ch]
    ELSE ch

Upper(s) == SubSeq([i \in 1..Len(s) |-> UpperCh(s[i])], 1, Len(s))
Lower(s) == SubSeq([i \in 1..Len(s) |-> LowerCh(s[i])], 1, Len(s))

\* sub in s
Contains(s, sub) ==
    \E i \in 0..(Len(s) - Len(sub)) : SubSeq(s, i + 1, i + Len(sub)) = sub

\* str.strip(): leading and trailing whitespace removed
RECURSIVE LStrip(_)
LStrip(s) == IF s # <<>> /\ s[1] = " " THEN LStrip(Tail(s)) ELSE s
RECURSIVE RStrip(_)
RStrip(s) ==
    IF s # <<>> /\ s[Len(s)] = " " THEN RStrip(SubSeq(s, 1, Len(s) - 1)) ELSE s
Strip(s) == RStrip(LStrip(s))

\* str.replace(old, new): non-overlapping occurrences, left to right
RECURSIVE Replace(_, _, _)
Replace(s, old, new) ==
    IF Len(s) < Len(old) THEN s
    ELSE IF SubSeq(s, 1, Len(old)) = old
         THEN new \o Replace(SubSeq(s, Len(old) + 1, Len(s)), old, new)
         ELSE <<s[1]>> \o Replace(Tail(s), old, new)

\* str(n) of an int
RECURSIVE IntStr(_)
IntStr(n) ==
    IF n < 10 THEN <<Digits[n + 1]>>
    ELSE IntStr(n \div 10) \o <<Digits[(n % 10) + 1]>>

\* the fractional digits of a float of m thousandths: no trailing zero, one at least
FracStr(f) ==
    IF f = 0 THEN <<"0">>
    ELSE IF f % 100 = 0 THEN <<Digits[(f \div 100) + 1]>>
    ELSE IF f % 10 = 0 THEN <<Digits[(f \div 100) + 1], Digits[((f \div 10) % 10) + 1]>>
    ELSE <<Digits[(f \div 100) + 1], Digits[((f \div 10) % 10) + 1], Digits[(f % 10) + 1]>>

\* str(x) of a float of m thousandths: 123000 is "123.0", 10500 is "10.5"
FloatStr(m) == IntStr(m \div 1000) \o <<".">> \o FracStr(m % 1000)

\* the value of a text of digits
RECURSIVE DigitsVal(_)
DigitsVal(s) ==
    IF s = <<>> THEN 0
    ELSE 10 * DigitsVal(SubSeq(s, 1, Len(s) - 1)) + DigitVal(s[Len(s)])

AllDigits(s) == \A i \in 1..Len(s) : IsDigit(s[i])


---------------------------------------------------------------------------
(* Cells and canonical values *)

NaN == [k |-> "nan"]                       \* float('nan'), an empty worksheet cell
NoneCell == [k |-> "none"]                 \* Python None
NaTCell == [k |-> "nat"]                   \* pd.NaT
StrCell(s) == [k |-> "str", s |-> s]
IntCell(n) == [k |-> "int", v |-> n]
FloatCell(m) == [k |-> "float", v |-> m]   \* m thousandths
DateCell(d, t) == [k |-> "date", day |-> d, tod |-> t]

NaT == [day |-> 0, tod |-> 0]

\* pd.isna(x) / pd.notna(x) of a scalar
IsNa(c) == c.k \in {"nan", "none", "nat"}
NotNa(c) == ~IsNa(c)

\* strftime("%Y-%m-%d") of a timestamp of day d
DayStr(d) == <<"2","0","2","4","-","0","1","-","0", Digits[d + 1]>>
TodStr(t) ==
    IF t = 0 THEN <<"0","0",":","0","0",":","0","0">>
    ELSE <<"1", Digits[t + 1], ":","0","0",":","0","0">>

\* str(x)
Str(c) ==
    CASE c.k = "nan" -> <<"n","a","n">>
      [] c.k = "none" -> <<"N","o","n","e">>
      [] c.k = "nat" -> <<"N","a","T">>
      [] c.k = "str" -> c.s
      [] c.k = "int" -> IntStr(c.v)
      [] c.k = "float" -> FloatStr(c.v)
      [] c.k = "date" -> DayStr(c.day) \o <<" ">> \o TodStr(c.tod)

---------------------------------------------------------------------------
(* Field normalizers *)

only_digits(c) ==
    IF IsNa(c) THEN <<>>
    ELSE SelectSeq(Str(c), IsDigit)

norm_text(c) ==
    IF IsNa(c) THEN <<>>
    ELSE Strip(Str(c))

Sentinels == { <<"n","a","n">>, <<"n","a","t">>, <<"n","o","n","e">> }

norm_numero(c) ==
    LET s == Str(c)
    IN  IF Lower(s) \in Sentinels THEN <<>>
        ELSE Strip(Replace(s, <<".", "0">>, <<>>))

\* pd.to_numeric(x, errors="coerce") of a str: digits, then optionally a point
\* and at most three digits; anything else is NaN.  (Signs, exponents and
\* surrounding blanks never occur in the texts this model draws.)
ToNumericStr(s) ==
    LET dots == {i \in 1..Len(s) : s[i] = "."}
    IN  IF s = <<>> THEN NaN
        ELSE IF dots = {} THEN
            IF AllDigits(s) THEN FloatCell(1000 * DigitsVal(s)) ELSE NaN
        ELSE IF Cardinality(dots) > 1 THEN NaN
        ELSE LET p == CHOOSE i \in dots : TRUE
                 ip == SubSeq(s, 1, p - 1)
                 fp == SubSeq(s, p + 1, Len(s))
                 pad == fp \o SubSeq(<<"0","0","0">>, 1, 3 - Len(fp))
             IN  IF AllDigits(ip) /\ AllDigits(fp) /\ Len(fp) <= 3 /\ Len(ip) + Len(fp) > 0
                 THEN FloatCell(1000 * DigitsVal(ip) + DigitsVal(pad))
                 ELSE NaN

parse_val(c) ==
    CASE c.k = "str" ->
            ToNumericStr(Replace(Replace(c.s, <<".">>, <<>>), <<",">>, <<".">>))
      [] c.k = "int" -> FloatCell(1000 * c.v)
      [] c.k = "float" -> c
      [] OTHER -> NaN

\* .fillna(0.0) of the VALOR column, as thousandths
FillZero(c) == IF IsNa(c) THEN 0 ELSE c.v

\* pd.to_datetime(x, errors="coerce"), one element: a datetime is kept with its
\* time of day, a str parses when it is an ISO date of the modelled month, and
\* everything else is NaT
to_datetime(c) ==
    CASE c.k = "date" -> [day |-> c.day, tod |-> c.tod]
      [] c.k = "str" ->
            IF Len(c.s) = 10 /\ SubSeq(c.s, 1, 9) = SubSeq(DayStr(1), 1, 9)
               /\ IsDigit(c.s[10]) /\ c.s[10] # "0"
            THEN [day |-> DigitVal(c.s[10]), tod |-> 0]
            ELSE NaT
      [] OTHER -> NaT

\* the five normalizations of lines 91-95 and 227-231, the amount filled to 0.0
NormalizeRow(row) ==
    [FORNECEDOR |-> norm_text(row.FORNECEDOR),
     CNPJ |-> only_digits(row.CNPJ),
     NUMERO |-> norm_numero(row.NUMERO),
     DATA |-> to_datetime(row.DATA),
     VALOR |-> FillZero(parse_val(row.VALOR))]

\* a record of the dataset as the cells a handler reads back from the frame
TsCell(ts) == IF ts = NaT THEN NaTCell ELSE DateCell(ts.day, ts.tod)
AsCells(r) ==
    [FORNECEDOR |-> StrCell(r.FORNECEDOR),
     CNPJ |-> StrCell(r.CNPJ),
     NUMERO |-> StrCell(r.NUMERO),
     DATA |-> TsCell(r.DATA),
     VALOR |-> FloatCell(r.VALOR)]

---------------------------------------------------------------------------
(* Ingestion: detect_and_load_excel *)

COLUMNS == <<"FORNECEDOR", "CNPJ", "NUMERO", "DATA", "VALOR">>

kFORNECEDOR == <<"F","O","R","N","E","C","E","D","O","R">>
kVALOR == <<"V","A","L","O","R">>
kDATA == <<"D","A","T","A">>
kCNPJ == <<"C","N","P","J">>
kCPF == <<"C","P","F">>
kNUMERO == <<"N","U","M","E","R","O">>
kNF == <<"N","F">>

CnpjLabels ==
    { kCNPJ, kCPF, kCNPJ \o <<"/">> \o kCPF, kCNPJ \o <<" ","/"," ">> \o kCPF }
NumeroLabels ==
    { <<"N","°">>, <<"N","º">>, kNUMERO, <<"N","°"," ">> \o kNF,
      <<"N","º"," ">> \o kNF, kNF, <<"N">>, <<"N",".">> }

\* lines 54-55: the row's cells as upper-cased str, FORNECEDOR in one and VALOR in one
RowHasKeywords(row) ==
    /\ \E j \in 1..Len(row) : Contains(Upper(Str(row[j])), kFORNECEDOR)
    /\ \E j \in 1..Len(row) : Contains(Upper(Str(row[j])), kVALOR)

Min(a, b) == IF a < b THEN a ELSE b

\* lines 52-57: the loop from row i on; -1 is header_idx = None
RECURSIVE ScanHeader(_, _)
ScanHeader(raw, i) ==
    IF i >= Min(ScanLimit, Len(raw)) THEN -1
    ELSE IF RowHasKeywords(raw[i + 1]) THEN i
    ELSE ScanHeader(raw, i + 1)

\* the other variant of the program: no hit falls back to row 1
detect_header_fallback1(raw) ==
    LET h == ScanHeader(raw, 0) IN IF h = -1 THEN 1 ELSE h

\* lines 51-59: the header row index
detect_header(raw) ==
    LET h == ScanHeader(raw, 0) IN IF h = -1 THEN 0 ELSE h

\* xl.parse(sheet, header=h): the labels of the header row.  An empty header
\* cell is labelled "Unnamed: j", and a label seen k times before gets ".k".
RawLabel(row, j) ==
    IF IsNa(row[j])
    THEN <<"U","n","n","a","m","e","d",":"," ">> \o IntStr(j - 1)
    ELSE Str(row[j])
HeaderLabels(raw, h) ==
    IF h + 1 > Len(raw) THEN <<>>
    ELSE LET row == raw[h + 1]
             seen(j) == Cardinality({i \in 1..(j - 1) : RawLabel(row, i) = RawLabel(row, j)})
         IN  SubSeq([j \in 1..Len(row) |->
                       IF seen(j) = 0 THEN RawLabel(row, j)
                       ELSE RawLabel(row, j) \o <<".">> \o IntStr(seen(j))],
                    1, Len(row))

\* the rows below the header row
BodyRows(raw, h) == SubSeq(raw, h + 2, Len(raw))

\* lines 65-71: the canonical name a label is renamed to, "" when it is kept
rename_map(label) ==
    LET up == Upper(Strip(label))
    IN  IF Contains(up, kFORNECEDOR) THEN "FORNECEDOR"
        ELSE IF up \in CnpjLabels THEN "CNPJ"
        ELSE IF up \in NumeroLabels THEN "NUMERO"
        ELSE IF Contains(up, kDATA) THEN "DATA"
        ELSE IF Contains(up, kVALOR) THEN "VALOR"
        ELSE ""

\* the name of every source column after df.rename (line 72); a kept label is ""
Renamed(labels) == SubSeq([j \in 1..Len(labels) |-> rename_map(labels[j])], 1, Len(labels))

\* the positions of the source columns named c after df.rename
Positions(names, c) == {j \in 1..Len(names) : names[j] = c}

\* lines 75-78: the columns of df[COLUMNS]: a missing column is synthesized once,
\* a name that several source columns carry is selected once per column
RECURSIVE FrameColumns(_, _)
FrameColumns(names, n) ==
    IF n > Len(COLUMNS) THEN <<>>
    ELSE (IF Cardinality(Positions(names, COLUMNS[n])) <= 1
          THEN <<COLUMNS[n]>>
          ELSE [i \in 1..Cardinality(Positions(names, COLUMNS[n])) |-> COLUMNS[n]])
         \o FrameColumns(names, n + 1)

\* one row of df[COLUMNS] when no name is carried twice: the cell of the source
\* column, None for a synthesized column (line 77)
FrameCell(names, row, c) ==
    IF Positions(names, c) = {} THEN NoneCell
    ELSE row[CHOOSE j \in Positions(names, c) : TRUE]
FrameRow(names, row) ==
    [FORNECEDOR |-> FrameCell(names, row, "FORNECEDOR"),
     CNPJ |-> FrameCell(names, row, "CNPJ"),
     NUMERO |-> FrameCell(names, row, "NUMERO"),
     DATA |-> FrameCell(names, row, "DATA"),
     VALOR |-> FrameCell(names, row, "VALOR")]

\* a footer that also drops rows whose amount is absent
is_footer_no_valor(row) ==
    IsNa(row.FORNECEDOR) /\ IsNa(row.NUMERO) /\ IsNa(row.DATA)

\* lines 81-87
is_footer(row) ==
    /\ IsNa(row.FORNECEDOR)
    /\ IsNa(row.NUMERO)
    /\ IsNa(row.DATA)
    /\ NotNa(row.VALOR)

\* line 88 and lines 91-105: the rows that are no footer, normalized, in order.
\* After line 91 no row is all-NaN (FORNECEDOR is a str), so the dropna of line
\* 98 drops nothing, and the fillna of lines 100-101 finds nothing to fill.
RECURSIVE KeepAndNormalize(_, _, _)
KeepAndNormalize(names, body, i) ==
    IF i > Len(body) THEN <<>>
    ELSE (IF is_footer(FrameRow(names, body[i])) THEN <<>>
          ELSE <<NormalizeRow(FrameRow(names, body[i]))>>)
         \o KeepAndNormalize(names, body, i + 1)

Raised(h, cols) == [ok |-> FALSE, header_idx |-> h, columns |-> cols, rows |-> <<>>]

\* lines 63-105, given the header row, the renamed source columns, the columns
\* of df[COLUMNS] and the rows below the header
LoadFrame(header_idx, names, cols, body, emptyRaises) ==
    IF Len(cols) > Len(COLUMNS) THEN Raised(header_idx, cols)
    ELSE IF body = <<>> /\ emptyRaises THEN Raised(header_idx, cols)
    ELSE [ok |-> TRUE, header_idx |-> header_idx, columns |-> cols,
          rows |-> KeepAndNormalize(names, body, 1)]

\* line 61 on: the sheet parsed again with the header row found
LoadWithHeader(raw, header_idx, names, emptyRaises) ==
    LoadFrame(header_idx, names, FrameColumns(names, 1), BodyRows(raw, header_idx),
              emptyRaises)

\* lines 61-72: the labels of the header row, renamed
LoadSheet(raw, header_idx, emptyRaises) ==
    LoadWithHeader(raw, header_idx, Renamed(HeaderLabels(raw, header_idx)), emptyRaises)

\* lines 46-105.  The result is what the caller gets: ok with the records, or an
\* exception (ok = FALSE).  header_idx and columns record the header row chosen
\* and the columns of df[COLUMNS] (line 78) in either case.
\*   - An unreadable workbook raises in pd.ExcelFile / xl.parse (lines 47-49).
\*   - A canonical name carried by two source columns makes row.get(name) a
\*     Series in is_footer and df[name] a frame in lines 91-95; for FORNECEDOR
\*     the truth test of line 83 raises, for DATA pd.to_datetime of line 94
\*     raises.  The sheets drawn below collide on these two names only, and
\*     on FORNECEDOR only above at least one row (is_footer is called per row).
\*   - On a frame without rows df.apply(is_footer, axis=1) does not call
\*     is_footer row by row; pandas infers the result, and with a float result
\*     the ~ of line 88 raises TypeError.  emptyRaises chooses between that and
\*     an empty boolean mask.
detect_and_load_excel(file, emptyRaises) ==
    IF ~file.readable THEN Raised(-1, <<>>)
    ELSE LoadSheet(file.grid, detect_header(file.grid), emptyRaises)

---------------------------------------------------------------------------
(* Dedup key: make_key *)

\* .round(2) of a number of thousandths, as hundredths (half to even)
Round2(m) ==
    LET c == m \div 10
        r == m % 10
    IN  IF r < 5 THEN c
        ELSE IF r > 5 THEN c + 1
        ELSE IF c % 2 = 0 THEN c ELSE c + 1

\* line 115: strftime("%Y-%m-%d"), NaT filled with ""
KeyDate(ts) == IF ts = NaT THEN <<>> ELSE DayStr(ts.day)

\* a key that leaves the amount out of the fallback form
make_key_no_valor(r) ==
    IF r.CNPJ # <<>>
    THEN r.CNPJ \o <<"|">> \o r.NUMERO \o <<"|">> \o KeyDate(r.DATA)
    ELSE Upper(Strip(r.FORNECEDOR)) \o <<"|">> \o r.NUMERO \o <<"|">> \o KeyDate(r.DATA)

\* lines 113-123, one row
make_key(r) ==
    IF r.CNPJ # <<>>
    THEN r.CNPJ \o <<"|">> \o r.NUMERO \o <<"|">> \o KeyDate(r.DATA)
    ELSE Upper(Strip(r.FORNECEDOR)) \o <<"|">> \o r.NUMERO \o <<"|">> \o KeyDate(r.DATA)
         \o <<"|">> \o FloatStr(10 * Round2(r.VALOR))

---------------------------------------------------------------------------
(* Merge engine: merge_import *)

KeysOf(rows) == {make_key(rows[i]) : i \in 1..Len(rows)}

\* the incoming rows from position i on whose key is in neither seen nor an
\* earlier admitted row of the batch
RECURSIVE AdmitDistinct(_, _, _)
AdmitDistinct(incoming, i, seen) ==
    IF i > Len(incoming) THEN <<>>
    ELSE IF make_key(incoming[i]) \in seen THEN AdmitDistinct(incoming, i + 1, seen)
    ELSE <<incoming[i]>> \o AdmitDistinct(incoming, i + 1, seen \cup {make_key(incoming[i])})

\* lines 140-141: incoming[~inc_key.isin(existing)], from position i on
RECURSIVE MaskNew(_, _, _)
MaskNew(incoming, i, existing) ==
    IF i > Len(incoming) THEN <<>>
    ELSE (IF make_key(incoming[i]) \in existing THEN <<>> ELSE <<incoming[i]>>)
         \o MaskNew(incoming, i + 1, existing)

\* lines 143-147
Appended(base, incoming, new) ==
    IF new = <<>>
    THEN [data |-> base, added |-> 0, skipped |-> Len(incoming) - 0]
    ELSE [data |-> base \o new, added |-> Len(new), skipped |-> Len(incoming) - Len(new)]

\* a merge that also deduplicates the batch against itself
merge_import_intra(base, incoming, mode) ==
    IF mode = "replace"
    THEN [data |-> incoming, added |-> Len(incoming), skipped |-> 0]
    ELSE Appended(base, incoming, AdmitDistinct(incoming, 1, KeysOf(base)))

\* a merge whose replace mode keeps the base
merge_import_keep(base, incoming, mode) ==
    IF mode = "replace"
    THEN [data |-> base \o incoming, added |-> Len(incoming), skipped |-> 0]
    ELSE Appended(base, incoming, MaskNew(incoming, 1, KeysOf(base)))

\* lines 125-147
merge_import(base, incoming, mode) ==
    IF mode = "replace"
    THEN [data |-> incoming, added |-> Len(incoming), skipped |-> 0]
    ELSE Appended(base, incoming, MaskNew(incoming, 1, KeysOf(base)))

---------------------------------------------------------------------------
(* Export serializer: to_excel_bytes, and the workbook read back *)

\* a str written to a worksheet and read back: the empty str is an empty cell
TextCellBack(s) == IF s = <<>> THEN NaN ELSE StrCell(s)

\* line 152 and the write: .dt.date keeps the calendar day only; NaT is an
\* empty cell
DateCellBack(ts) == IF ts = NaT THEN NaN ELSE DateCell(ts.day, 0)

\* a float written and read back: an integral number is read as an int
NumCellBack(m) == IF m % 1000 = 0 THEN IntCell(m \div 1000) ELSE FloatCell(m)

HeaderRowOut == <<StrCell(kFORNECEDOR), StrCell(kCNPJ), StrCell(kNUMERO),
                  StrCell(kDATA), StrCell(kVALOR)>>

\* lines 150-156: the workbook, as the grid xl.parse(header=None) reads from it
to_excel_bytes(df) ==
    [readable |-> TRUE,
     grid |-> <<HeaderRowOut>> \o
              SubSeq([i \in 1..Len(df) |->
                        <<TextCellBack(df[i].FORNECEDOR), TextCellBack(df[i].CNPJ),
                          TextCellBack(df[i].NUMERO), DateCellBack(df[i].DATA),
                          NumCellBack(df[i].VALOR)>>], 1, Len(df))]

---------------------------------------------------------------------------
(* Session handlers *)

Msg(kind, a, k) == [kind |-> kind, added |-> a, skipped |-> k]

ImportModes == {"Substituir base", "Anexar (sem duplicar)"}

\* mode.startswith("Substituir")
MergeMode(mode) == IF mode = "Substituir base" THEN "replace" ELSE "append_nodedup"

\* lines 196-202: the load succeeded
Merged(m) == [data |-> m.data, msg |-> Msg("success", m.added, m.skipped)]

\* a handler that resets the dataset when the load fails
Handled_reset(d, incoming, mode) ==
    IF ~incoming.ok
    THEN [data |-> <<>>, msg |-> Msg("error", 0, 0)]
    ELSE Merged(merge_import(d, incoming.rows, MergeMode(mode)))

\* lines 194-204, the workbook loaded or the load failed: try / except
Handled(d, incoming, mode) ==
    IF ~incoming.ok
    THEN [data |-> d, msg |-> Msg("error", 0, 0)]
    ELSE Merged(merge_import(d, incoming.rows, MergeMode(mode)))

\* lines 194-204: the try block of the import form, a file being chosen
form_import(d, up, mode, emptyRaises) ==
    Handled(d, detect_and_load_excel(up, emptyRaises), mode)

\* lines 227-232: every row of the edited grid through the normalizers
btn_save(edited_df) ==
    SubSeq([i \in 1..Len(edited_df) |-> NormalizeRow(edited_df[i])], 1, Len(edited_df))

\* lines 15-22
empty_df == <<>>

---------------------------------------------------------------------------
(* Inputs *)

tACME == <<"A","C","M","E">>
tAcmeLtda == <<"A","c","m","e"," ","L","t","d","a">>
tBeta == <<"B","e","t","a">>
tBETA == <<"B","E","T","A">>
tGama == <<"G","a","m","a">>
tBlank == <<" "," ">>
tBetaPadded == <<" ","B","e","t","a"," ">>
tCnpjA == <<"1","2",".","3","4","5","/","0","0","0","1">>
tCnpjA2 == <<"1","2","3","4","5","-","0","0","0","1">>
tDigitsA == <<"1","2","3","4","5","0","0","0","1">>
tDigitsB == <<"6","7","8">>
t55 == <<"5","5">>
t7 == <<"7">>
tNanPadded == <<" ","n","a","n"," ">>
tDotDot == <<"1",".",".","0","0">>
tNF12 == <<"N","F"," ","1","2">>
tBadDate == <<"s","/","d">>
tIsoDate == <<"2","0","2","4","-","0","1","-","0","3">>
tBRL == <<"1",".","2","3","4",",","5","6">>
tTenHalf == <<"1","0",",","5">>
tNotNumber == <<"a","b","c">>

\* worksheet rows of six cells: supplier, tax id, invoice number, date, amount, note
RowClean == <<StrCell(tACME), StrCell(tCnpjA), FloatCell(55000), DateCell(1, 0),
              StrCell(tBRL), NaN>>
RowSameKey == <<StrCell(tAcmeLtda), StrCell(tCnpjA2), IntCell(55), DateCell(1, 0),
                FloatCell(99000), NaN>>
RowFooter == <<NaN, NaN, NaN, NaN, FloatCell(1000000), NaN>>
RowSupplierOnly == <<StrCell(tBeta), NaN, NaN, NaN, FloatCell(1000000), NaN>>
RowBlankSupplier == <<StrCell(tBlank), NaN, NaN, NaN, FloatCell(1000000), NaN>>
RowEmpty == <<NaN, NaN, NaN, NaN, NaN, NaN>>
RowNoSupplier == <<NaN, NaN, IntCell(7), NaN, FloatCell(10000), NaN>>
RowBadDate == <<NaN, NaN, NaN, StrCell(tBadDate), FloatCell(5000), NaN>>
RowTimeOfDay == <<StrCell(tBetaPadded), NaN, StrCell(tNF12), DateCell(2, 1),
                  FloatCell(10001), NaN>>
RowHeaderAgain == <<StrCell(kFORNECEDOR), StrCell(kCNPJ), StrCell(kNF), StrCell(kDATA),
                    StrCell(kVALOR), NaN>>

\* rows above the header row
RowTitle == <<StrCell(<<"R","e","l","a","t","o","r","i","o"," ","d","e"," ","n","o","t","a","s">>), NaN, NaN, NaN, NaN, NaN>>
RowPartial == <<StrCell(<<"F","o","r","n","e","c","e","d","o","r",":">>), StrCell(<<"A","c","m","e">>), NaN, NaN, NaN, NaN>>
LeadKinds == {RowTitle, RowEmpty, RowPartial}

\* header rows
HeaderPlain == <<StrCell(<<"F","o","r","n","e","c","e","d","o","r">>), StrCell(<<"C","N","P","J">>), StrCell(<<"N","º"," ","N","F">>), StrCell(<<"D","a","t","a">>), StrCell(<<"V","a","l","o","r">>), StrCell(<<"O","b","s">>)>>
HeaderAliases == <<StrCell(<<" ","F","O","R","N","E","C","E","D","O","R"," ">>), StrCell(<<"c","n","p","j"," ","/"," ","c","p","f">>), StrCell(<<"n",".">>), StrCell(<<"D","a","t","a"," ","E","m","i","s","s","a","o">>), StrCell(<<"V","a","l","o","r"," ","(","R","$",")">>), NaN>>
HeaderMissing == <<StrCell(<<"F","o","r","n","e","c","e","d","o","r">>), StrCell(<<"C","o","d","i","g","o">>), StrCell(<<"P","e","d","i","d","o">>), StrCell(<<"P","r","a","z","o">>), StrCell(<<"V","a","l","o","r">>), NaN>>
HeaderSwapped == <<StrCell(<<"C","P","F">>), StrCell(<<"N","o","m","e"," ","d","o"," ","f","o","r","n","e","c","e","d","o","r">>), StrCell(<<"N","F">>), StrCell(<<"D","A","T","A">>), StrCell(<<"V","A","L","O","R">>), StrCell(<<"O","b","s">>)>>
HeaderTwoDates == <<StrCell(<<"F","o","r","n","e","c","e","d","o","r">>), StrCell(<<"C","N","P","J">>), StrCell(<<"N","F">>), StrCell(<<"D","a","t","a">>), StrCell(<<"V","a","l","o","r">>), StrCell(<<"D","a","t","a"," ","V","e","n","c">>)>>
HeaderTwoSuppliers == <<StrCell(<<"F","o","r","n","e","c","e","d","o","r">>), StrCell(<<"C","N","P","J"," ","F","o","r","n","e","c","e","d","o","r">>), StrCell(<<"N","F">>), StrCell(<<"D","a","t","a">>), StrCell(<<"V","a","l","o","r">>), StrCell(<<"O","b","s">>)>>
HeaderUnknown == <<StrCell(<<"N","o","m","e">>), StrCell(<<"C","o","d","i","g","o">>), StrCell(<<"P","e","d","i","d","o">>), StrCell(<<"P","r","a","z","o">>), StrCell(<<"T","o","t","a","l">>), StrCell(<<"O","b","s">>)>>
HeaderOneCell == <<StrCell(<<"f","o","r","n","e","c","e","d","o","r","/","v","a","l","o","r">>), NaN, NaN, NaN, NaN, NaN>>
Headers == {HeaderPlain, HeaderAliases, HeaderMissing, HeaderSwapped, HeaderTwoDates, HeaderTwoSuppliers, HeaderUnknown, HeaderOneCell}

\* n copies of a row
Repeat(row, n) == [i \in 1..n |-> row]

\* a readable workbook: lead rows, a header row, body rows
Sheet(lead, n, header, body) ==
    [readable |-> TRUE, grid |-> Repeat(lead, n) \o <<header>> \o body]

Unreadable == [readable |-> FALSE, grid |-> <<>>]

SeqsUpTo(S, n) == UNION {[1..k -> S] : k \in 0..n}

\* the workbooks the session's import form is given
UploadRows == {RowClean, RowFooter, RowNoSupplier, RowTimeOfDay}
UploadFiles ==
    {Unreadable}
    \cup {Sheet(RowTitle, 2, HeaderPlain, body) : body \in SeqsUpTo(UploadRows, MaxUpload)}
    \cup {Sheet(RowTitle, 0, HeaderTwoDates, <<RowClean>>)}

\* the rows a user adds in the grid: text or None, a date or None, a float or None
EditorRows ==
    { [FORNECEDOR |-> StrCell(tBetaPadded), CNPJ |-> StrCell(tCnpjA), NUMERO |-> NoneCell,
       DATA |-> DateCell(3, 0), VALOR |-> FloatCell(20000)],
      [FORNECEDOR |-> StrCell(tGama), CNPJ |-> NoneCell, NUMERO |-> StrCell(t7),
       DATA |-> NoneCell, VALOR |-> NoneCell] }

RemoveAt(q, i) == SubSeq(q, 1, i - 1) \o SubSeq(q, i + 1, Len(q))

\* the grids st.data_editor returns for a dataset: untouched, a row deleted, a row added
EditedFrames(d) ==
    LET cells == SubSeq([i \in 1..Len(d) |-> AsCells(d[i])], 1, Len(d))
    IN  {cells}
        \cup {RemoveAt(cells, i) : i \in 1..Len(d)}
        \cup {cells \o <<e>> : e \in {x \in EditorRows : Len(d) < MaxData}}

---------------------------------------------------------------------------
(* The session: import, save edits, clear *)

NoCall == <<>>

Init ==
    /\ data = empty_df
    /\ msg = Msg("none", 0, 0)
    /\ pc = "app"
    /\ arg = NoCall
    /\ ret = NoCall

\* lines 190-204, a file chosen; the handler's result is stored in the session
\* (datasets longer than MaxData are not explored)
Import ==
    \E up \in UploadFiles, mode \in ImportModes, emptyRaises \in BOOLEAN :
        \E out \in {form_import(data, up, mode, emptyRaises)} :
            /\ Len(out.data) <= MaxData
            /\ data' = out.data
            /\ msg' = out.msg
            /\ UNCHANGED <<pc, arg, ret>>

\* lines 191-192, no file chosen
ImportNoFile ==
    /\ msg' = Msg("warning", 0, 0)
    /\ UNCHANGED <<data, pc, arg, ret>>

\* lines 226-233
Save ==
    \E edited_df \in EditedFrames(data) :
        /\ data' = btn_save(edited_df)
        /\ msg' = Msg("saved", 0, 0)
        /\ UNCHANGED <<pc, arg, ret>>

\* lines 236-238
Clear ==
    /\ data' = empty_df
    /\ msg' = Msg("cleared", 0, 0)
    /\ UNCHANGED <<pc, arg, ret>>

Next == Import \/ ImportNoFile \/ Save \/ Clear

Spec == Init /\ [][Next]_vars

---------------------------------------------------------------------------
(* The ingestion pipeline on its own: one call of detect_and_load_excel *)

\* numbers of rows above the header row: around the scan window of ScanLimit rows
LeadCounts == {0, 1, 2, ScanLimit - 1, ScanLimit, ScanLimit + 1}

IngestRows == {RowClean, RowFooter, RowSupplierOnly, RowBlankSupplier, RowEmpty,
               RowBadDate, RowHeaderAgain}

EmptySheet == [readable |-> TRUE, grid |-> <<>>]

\* a frame without rows is loaded under both behaviours of the empty apply
EmptyApply(body) == IF body = <<>> THEN BOOLEAN ELSE {TRUE}

SheetCalls(header, body) ==
    {[file |-> Sheet(lead, n, header, body), emptyRaises |-> b] :
        lead \in LeadKinds, n \in LeadCounts, b \in EmptyApply(body)}

IngestCalls ==
    {[file |-> f, emptyRaises |-> b] : f \in {Unreadable, EmptySheet}, b \in BOOLEAN}
    \cup UNION {SheetCalls(header, body) :
                  header \in Headers \ {HeaderTwoSuppliers},
                  body \in SeqsUpTo(IngestRows, MaxBody)}
    \cup UNION {SheetCalls(HeaderTwoSuppliers, body) :
                  body \in SeqsUpTo(IngestRows, MaxBody) \ {<<>>}}

InitIngest ==
    /\ data = empty_df
    /\ msg = Msg("none", 0, 0)
    /\ pc = "call"
    /\ arg \in IngestCalls
    /\ ret = NoCall

Ingest ==
    /\ pc = "call"
    /\ pc' = "done"
    /\ ret' = detect_and_load_excel(arg.file, arg.emptyRaises)
    /\ UNCHANGED <<data, msg, arg>>

SpecIngest == InitIngest /\ [][Ingest]_vars

---------------------------------------------------------------------------
(* The merge engine on its own: one call of merge_import *)

MergeRecords ==
    { [FORNECEDOR |-> tACME, CNPJ |-> tDigitsA, NUMERO |-> t55,
       DATA |-> [day |-> 1, tod |-> 0], VALOR |-> 1234560],
      [FORNECEDOR |-> tAcmeLtda, CNPJ |-> tDigitsA, NUMERO |-> t55,
       DATA |-> [day |-> 1, tod |-> 1], VALOR |-> 99000],
      [FORNECEDOR |-> tBeta, CNPJ |-> <<>>, NUMERO |-> t7, DATA |-> NaT, VALOR |-> 10001],
      [FORNECEDOR |-> tBETA, CNPJ |-> <<>>, NUMERO |-> t7, DATA |-> NaT, VALOR |-> 10002],
      [FORNECEDOR |-> tGama, CNPJ |-> <<>>, NUMERO |-> <<>>, DATA |-> NaT, VALOR |-> 0] }

MergeModes == {"replace", "append_nodedup", "append"}

InitMerge ==
    /\ data = empty_df
    /\ msg = Msg("none", 0, 0)
    /\ pc = "call"
    /\ arg \in [base : SeqsUpTo(MergeRecords, MaxBatch),
                incoming : SeqsUpTo(MergeRecords, MaxBatch),
                mode : MergeModes]
    /\ ret = NoCall

Merge ==
    /\ pc = "call"
    /\ pc' = "done"
    /\ ret' = merge_import(arg.base, arg.incoming, arg.mode)
    /\ UNCHANGED <<data, msg, arg>>

SpecMerge == InitMerge /\ [][Merge]_vars

---------------------------------------------------------------------------
(* The dedup key on its own: make_key of two records *)

KeyRecords ==
    [FORNECEDOR : {tACME, tBeta},
     CNPJ : {<<>>, tDigitsA, tDigitsB},
     NUMERO : {t55, t7},
     DATA : {NaT, [day |-> 1, tod |-> 0], [day |-> 2, tod |-> 0]},
     VALOR : {10000, 10001, 10002, 10010}]

InitKey ==
    /\ data = empty_df
    /\ msg = Msg("none", 0, 0)
    /\ pc = "call"
    /\ arg \in [r1 : KeyRecords, r2 : KeyRecords]
    /\ ret = NoCall

Key ==
    /\ pc = "call"
    /\ pc' = "done"
    /\ ret' = [k1 |-> make_key(arg.r1), k2 |-> make_key(arg.r2)]
    /\ UNCHANGED <<data, msg, arg>>

SpecKey == InitKey /\ [][Key]_vars

---------------------------------------------------------------------------
(* The field normalizers on their own: a raw row normalized, then again *)

RawRows ==
    [FORNECEDOR : {NaN, StrCell(tACME), StrCell(tBetaPadded), StrCell(tBlank)},
     CNPJ : {NaN, StrCell(tCnpjA)},
     NUMERO : {NaN, NoneCell, IntCell(55), FloatCell(123000), StrCell(tNF12),
               StrCell(tNanPadded), StrCell(tDotDot)},
     DATA : {NaN, DateCell(1, 0), DateCell(2, 1), StrCell(tBadDate), StrCell(tIsoDate)},
     VALOR : {NaN, FloatCell(1234560), StrCell(tBRL), StrCell(tTenHalf),
              StrCell(tNotNumber)}]

InitNorm ==
    /\ data = empty_df
    /\ msg = Msg("none", 0, 0)
    /\ pc = "call"
    /\ arg \in RawRows
    /\ ret = NoCall

\* lines 91-103: the raw row through the normalizers
NormalizeOnce ==
    /\ pc = "call"
    /\ pc' = "once"
    /\ ret' = <<NormalizeRow(arg)>>
    /\ UNCHANGED <<data, msg, arg>>

\* lines 227-231: the record, read back from the frame, through them again
NormalizeAgain ==
    /\ pc = "once"
    /\ pc' = "twice"
    /\ ret' = <<ret[1], NormalizeRow(AsCells(ret[1]))>>
    /\ UNCHANGED <<data, msg, arg>>

NextNorm == NormalizeOnce \/ NormalizeAgain

SpecNorm == InitNorm /\ [][NextNorm]_vars

---------------------------------------------------------------------------
(* Claims *)

\* the records of a sequence that satisfy no key of the existing set, in order
NewAgainst(incoming, base) ==
    LET absent(r) == \A i \in 1..Len(base) : make_key(base[i]) # make_key(r)
    IN  SelectSeq(incoming, absent)

\* C1: in every mode other than "replace", merge_import returns the existing
\* records in their order followed by exactly the incoming records whose key is
\* not a key of an existing record, in incoming order (incoming records are not
\* compared with each other); count_added is the number admitted and
\* count_skipped is |incoming| - count_added.
C1_AppendMerge ==
    (pc = "done" /\ arg.mode # "replace") =>
        /\ ret.data = arg.base \o NewAgainst(arg.incoming, arg.base)
        /\ ret.added = Len(NewAgainst(arg.incoming, arg.base))
        /\ ret.skipped = Len(arg.incoming) - ret.added

\* two incoming records share a key that no existing record has, and both are
\* admitted after a non-empty existing set
C1_Witness ==
    /\ pc = "done"
    /\ arg.mode = "append_nodedup"
    /\ Len(arg.base) = 1
    /\ Len(arg.incoming) = 2
    /\ arg.incoming[1] # arg.incoming[2]
    /\ make_key(arg.incoming[1]) = make_key(arg.incoming[2])
    /\ ret.added = 2
    /\ Len(ret.data) = 3

\* C2: in replace mode merge_import returns exactly the incoming set, whatever
\* the existing dataset, with count_added = |incoming| and count_skipped = 0.
C2_ReplaceMerge ==
    (pc = "done" /\ arg.mode = "replace") =>
        /\ ret.data = arg.incoming
        /\ ret.added = Len(arg.incoming)
        /\ ret.skipped = 0

\* a larger existing dataset replaced by a smaller, different incoming set
C2_Witness ==
    /\ pc = "done"
    /\ arg.mode = "replace"
    /\ Len(arg.base) = 2
    /\ Len(arg.incoming) = 1
    /\ arg.incoming[1] # arg.base[1]
    /\ Len(ret.data) = 1

\* C3: in every dataset the session reaches, importing an unreadable workbook,
\* in either import mode, leaves the dataset as it was and reports a failure.
C3_FileFailure ==
    \A mode \in ImportModes, emptyRaises \in BOOLEAN :
        form_import(data, Unreadable, mode, emptyRaises)
            = [data |-> data, msg |-> Msg("error", 0, 0)]

\* a failure has been reported and the dataset still holds records
C3_Witness == msg.kind = "error" /\ Len(data) > 0

\* C4: a non-empty dataset of the session, exported and ingested again, comes
\* back as the same records in the same order.  (The header-only workbook of an
\* empty dataset is left to emptyRaises above.)
C4_RoundTrip ==
    data # <<>> =>
        \A emptyRaises \in BOOLEAN :
            /\ detect_and_load_excel(to_excel_bytes(data), emptyRaises).ok
            /\ detect_and_load_excel(to_excel_bytes(data), emptyRaises).rows = data

\* C5: a record the normalizers produced is left as it is by the normalizers.
C5_Idempotent == pc = "twice" => ret[2] = ret[1]

\* the five fields of a source row as the sheet gives them
Absent(c) == c \in {NaN, NoneCell}
ClaimFooter(r) ==
    Absent(r.FORNECEDOR) /\ Absent(r.NUMERO) /\ Absent(r.DATA) /\ ~Absent(r.VALOR)
Retained(r) == ~ClaimFooter(r)
SourceRows(names, body) ==
    SubSeq([i \in 1..Len(body) |-> FrameRow(names, body[i])], 1, Len(body))
NormalizedAll(rows) ==
    SubSeq([i \in 1..Len(rows) |-> NormalizeRow(rows[i])], 1, Len(rows))

HasWord(row, word) == \E j \in 1..Len(row) : Contains(Upper(Str(row[j])), word)
MatchingRows(raw) ==
    {i \in 0..(Min(ScanLimit, Len(raw)) - 1) :
        HasWord(raw[i + 1], kFORNECEDOR) /\ HasWord(raw[i + 1], kVALOR)}

\* C7: the header row index is the smallest index below min(10, rowCount) of a
\* row with FORNECEDOR in one upper-cased cell and VALOR in one, and 0 when the
\* window holds no such row.
C7_HeaderDetection ==
    (pc = "done" /\ arg.file.readable) =>
        IF MatchingRows(arg.file.grid) = {}
        THEN ret.header_idx = 0
        ELSE /\ ret.header_idx \in MatchingRows(arg.file.grid)
             /\ \A i \in MatchingRows(arg.file.grid) : ret.header_idx <= i

\* the only rows with both keywords are at index 10 or later, and row 0 is chosen
C7_Witness ==
    /\ pc = "done"
    /\ arg.file.readable
    /\ Len(arg.file.grid) > ScanLimit
    /\ MatchingRows(arg.file.grid) = {}
    /\ \E i \in (ScanLimit + 1)..Len(arg.file.grid) :
          HasWord(arg.file.grid[i], kFORNECEDOR) /\ HasWord(arg.file.grid[i], kVALOR)
    /\ ret.header_idx = 0

SameButAmount(r1, r2) ==
    /\ r1.CNPJ = <<>> /\ r2.CNPJ = <<>>
    /\ r1.FORNECEDOR = r2.FORNECEDOR
    /\ r1.NUMERO = r2.NUMERO
    /\ r1.DATA = r2.DATA
SameTaxKey(r1, r2) ==
    /\ r1.CNPJ # <<>>
    /\ r1.CNPJ = r2.CNPJ
    /\ r1.NUMERO = r2.NUMERO
    /\ r1.DATA = r2.DATA

\* C8 (as claimed): the same non-empty tax id, invoice number and date give the
\* same key whatever supplier and amount; with empty tax ids and the same
\* supplier, invoice number and date, different amounts give different keys.
C8_KeyAsClaimed ==
    pc = "done" =>
        /\ SameTaxKey(arg.r1, arg.r2) => ret.k1 = ret.k2
        /\ (SameButAmount(arg.r1, arg.r2) /\ arg.r1.VALOR # arg.r2.VALOR)
              => ret.k1 # ret.k2

\* C8 (amended): as above, the second part for amounts that differ once rounded
\* to two decimals.
C8_KeyRounded ==
    pc = "done" =>
        /\ SameTaxKey(arg.r1, arg.r2) => ret.k1 = ret.k2
        /\ (SameButAmount(arg.r1, arg.r2) /\ Round2(arg.r1.VALOR) # Round2(arg.r2.VALOR))
              => ret.k1 # ret.k2

\* two records without tax id that differ only in amount, by a cent, get two keys
C8_Witness ==
    /\ pc = "done"
    /\ SameButAmount(arg.r1, arg.r2)
    /\ arg.r1.VALOR = 10000
    /\ arg.r2.VALOR = 10010
    /\ ret.k1 # ret.k2

\* C9: every record of the session's dataset has a trimmed, non-empty supplier.
C9_SupplierRequired ==
    \A i \in 1..Len(data) :
        /\ data[i].FORNECEDOR # <<>>
        /\ Strip(data[i].FORNECEDOR) = data[i].FORNECEDOR

\* C10: the frame ingestion builds from a readable sheet has exactly the five
\* canonical columns, each once, in the fixed order.
C10_FiveColumns ==
    (pc = "done" /\ arg.file.readable) => ret.columns = COLUMNS

===========================================================================
